---- MODULE Spec2Model ----
(***************************************************************************)
(* Model of db_expectations: the DatabaseValidator facade (validator.py)   *)
(* and the lifecycle hooks validate_before / validate_after /              *)
(* validate_both (decorators.py).                                          *)
(*                                                                         *)
(* One DatabaseValidator instance, one datastore table "users" and one     *)
(* wrapped function are modelled.  A hook call is a small process whose    *)
(* position is pc; the validator keeps its state across hook calls.        *)
(*                                                                         *)
(* Spec is the program of hooks and validator calls.  SpecCalls and        *)
(* SpecFaulty are programs of validate_table / validate_query calls whose  *)
(* arguments and reports are kept in probe, SpecFresh is a program that    *)
(* builds a freshness suite and evaluates it as time passes, SpecDecorate  *)
(* decorates one function with validate_both and with validate_before on   *)
(* top of validate_after.                                                  *)
(***************************************************************************)
EXTENDS Integers, Sequences, FiniteSets, TLC

\* ------------------------------------------------------------------ bounds
\* validate_table / validate_query calls allowed on the validator instance.
MaxCalls == 2
\* Row values of table users are 1..MaxRow.
MaxRow == 2
\* The clock of the freshness rule reads at most MaxTime hours.
MaxTime == 5
\* validate_table / validate_query calls allowed where every call is observed.
MaxObservedCalls == 3

\* ------------------------------------------------------------- input sets
None == "None"
\* None where the other values are integers (a bound not given, no value yet).
NoneInt == -1

Rows == 1..MaxRow
Q_ALL == "SELECT * FROM users"
Q_BIG == "SELECT * FROM users WHERE age > 1"
Queries == {Q_ALL, Q_BIG}
Tables == {"users"}
FuncName == "insert_user"
Args == {1, 2}
SuiteNames == {None, "my_suite"}
AssetNames == {None, "recent"}

\* The row-count descriptor in the form validate_table reads (kwargs nested).
RowCountExp(lo, hi) ==
    [expectation_type |-> "expect_table_row_count_to_be_between",
     kwargs |-> [min_value |-> lo, max_value |-> hi]]
\* A descriptor without expectation_type, as tests/test_decorators.py:142 passes.
UntypedExp == [type |-> "null_check"]
ExpectationLists == {<<>>, <<RowCountExp(1, MaxRow)>>, <<UntypedExp, RowCountExp(0, 0)>>}

\* ------------------------------------------------------------------ state
VARIABLES
    db,               \* rows of table users in the datastore
    asset_counter,    \* DatabaseValidator._asset_counter
    assets,           \* assets registered in DatabaseValidator.datasource
    suites,           \* the suites held by DatabaseValidator.context
    last_validation,  \* the last validate_table / validate_query call and its batch
    pc,               \* position of the hook wrapper call in progress
    hook,             \* which decorator built the wrapper being called
    cfg,              \* the decorator's arguments
    args,             \* the caller's arguments of the wrapper call
    trace,            \* validator calls and function invocations of this wrapper call
    result,           \* the value the wrapped function returned (local `result`)
    reports,          \* what the validator gave the wrapper in its pre and post phase
    outcome,          \* what the wrapper call gave its caller
    probe             \* the calls under observation: their inputs and what they gave

vars == <<db, asset_counter, assets, suites, last_validation,
          pc, hook, cfg, args, trace, result, reports, outcome, probe>>

\* ------------------------------------------------ datastore and the engine
\* Rows a query returns from the datastore.
QueryRows(query, d) == IF query = Q_ALL THEN d ELSE {r \in d : r > 1}
\* Rows of a table (SELECT * FROM <table>).
TableRows(table_name, d) == d

\* Rows of the batch built from an asset of the datasource.
BatchRows(asset, d) ==
    IF asset.kind = "table" THEN TableRows(asset.target, d)
    ELSE QueryRows(asset.target, d)

AssetNamed(as, name) == {a \in as : a.name = name}

\* What can go wrong in the datastore or the target during a call: nothing, an
\* error while the asset is registered (the table is missing, the datastore is
\* unreachable, the query is rejected), an error while the batch is evaluated.
Faults == {"none", "bind", "evaluate"}
\* The faults drawn where the binding of the target is not under observation.
CallFaults == {"none", "evaluate"}

\* datasource.add_table_asset / add_query_asset: asset names are unique in a
\* datasource, adding a name that exists raises; so does a target the datasource
\* cannot register.
add_asset(as, asset, fault) ==
    IF fault = "bind"
    THEN [raised |-> "TestConnectionError", assets |-> as, asset |-> asset]
    ELSE IF AssetNamed(as, asset.name) # {}
    THEN [raised |-> "ValueError", assets |-> as, asset |-> asset]
    ELSE [raised |-> None, assets |-> as \cup {asset}, asset |-> asset]

\* datasource.get_asset(name): the asset registered under the name; a name that
\* is not registered raises LookupError.
get_asset(as, name) ==
    IF AssetNamed(as, name) = {}
    THEN [raised |-> "LookupError", asset |-> None]
    ELSE [raised |-> None, asset |-> CHOOSE a \in AssetNamed(as, name) : TRUE]

\* try: add the asset / except Exception: get the asset of that name.
\* bind_error is the exception the except clause caught for a fault.
add_or_get_asset(as, asset, fault) ==
    LET added == add_asset(as, asset, fault) IN
    IF added.raised = None
    THEN [raised |-> None, assets |-> added.assets, asset |-> added.asset,
          bind_error |-> None]
    ELSE LET got == get_asset(as, asset.name) IN
         [raised |-> got.raised, assets |-> as, asset |-> got.asset,
          bind_error |-> IF fault = "bind" THEN added.raised ELSE None]

\* The suites of the context that have the name.
SuiteNamed(ss, suite_name) == {s \in ss : s.name = suite_name}

\* Mutant of get_or_add_suite: a new suite takes the place of the one held.
get_or_add_suite_replaces(ss, suite_name, counter) ==
    (ss \ SuiteNamed(ss, suite_name)) \cup {[name |-> suite_name, created |-> counter]}

\* try: context.suites.get(name) / except: context.suites.add(ExpectationSuite(name)).
\* A suite object is told from another by the call that created it.
get_or_add_suite(ss, suite_name, counter) ==
    IF SuiteNamed(ss, suite_name) # {} THEN ss
    ELSE ss \cup {[name |-> suite_name, created |-> counter]}

\* dict.get(key, default)
Get(exp, key, default) == IF key \in DOMAIN exp THEN exp[key] ELSE default

\* The checks the engine's batch object has (hasattr(batch, expectation_type)).
EngineChecks == {"expect_table_row_count_to_be_between",
                 "expect_column_values_to_be_between",
                 "expect_column_min_to_be_between",
                 "expect_column_max_to_be_between"}

\* Names for which hasattr(batch, name) holds: the checks, and the attributes the
\* batch object has besides them (every Python object has __eq__).
BatchAttributes == EngineChecks \cup {"__eq__"}

\* The engine's verdict of one check on the rows of the batch: the number of rows,
\* every value of the (one) column, the least or the greatest value of the column
\* is within the bounds that are given.  A batch without rows has no least or
\* greatest value, and a check on it does not succeed.
RunCheck(expectation_type, kwargs, rows) ==
    LET lo == Get(kwargs, "min_value", NoneInt)
        hi == Get(kwargs, "max_value", NoneInt)
        n  == Cardinality(rows)
        Between(x) == (lo # NoneInt => x >= lo) /\ (hi # NoneInt => x <= hi)
    IN  IF expectation_type = "expect_table_row_count_to_be_between" THEN Between(n)
        ELSE IF expectation_type = "expect_column_values_to_be_between"
        THEN \A r \in rows : Between(r)
        ELSE IF expectation_type = "expect_column_min_to_be_between"
        THEN rows # {} /\ Between(CHOOSE r \in rows : \A x \in rows : r <= x)
        ELSE rows # {} /\ Between(CHOOSE r \in rows : \A x \in rows : r >= x)

\* Mutant of run_expectations: the loop goes through the list from its end.
RECURSIVE run_expectations_from_the_end(_, _)
run_expectations_from_the_end(expectations, rows) ==
    IF expectations = <<>> THEN [raised |-> None, results |-> <<>>, applied |-> <<>>]
    ELSE LET exp == Head(expectations)
             expectation_type == Get(exp, "expectation_type", None)
             kwargs == Get(exp, "kwargs", <<>>)
             rest == run_expectations_from_the_end(Tail(expectations), rows)
             called == [raised |-> rest.raised,
                        results |-> rest.results
                                    \o <<[expectation_type |-> expectation_type,
                                          kwargs |-> kwargs,
                                          success |-> RunCheck(expectation_type, kwargs, rows)]>>,
                        applied |-> rest.applied \o <<exp>>]
         IN  IF "callable" \in DOMAIN exp THEN called
             ELSE IF expectation_type # None /\ expectation_type \in BatchAttributes
             THEN IF expectation_type \notin EngineChecks
                  THEN [raised |-> "TypeError", results |-> <<>>, applied |-> <<exp>>]
                  ELSE called
             ELSE rest

\* The `for exp in expectations` loop: the entries applied to the batch and the
\* per-rule results of their checks, in the order of the calls, or the exception
\* that ended the loop.  A callable entry is called with the batch and calls its
\* check on it.  getattr(batch, expectation_type)(**kwargs) of an attribute that
\* is not a check is a call with the wrong arguments.
RECURSIVE run_expectations(_, _)
run_expectations(expectations, rows) ==
    IF expectations = <<>> THEN [raised |-> None, results |-> <<>>, applied |-> <<>>]
    ELSE LET exp == Head(expectations)
             expectation_type == Get(exp, "expectation_type", None)
             kwargs == Get(exp, "kwargs", <<>>)
             rest == run_expectations(Tail(expectations), rows)
             called == [raised |-> rest.raised,
                        results |-> <<[expectation_type |-> expectation_type,
                                       kwargs |-> kwargs,
                                       success |-> RunCheck(expectation_type, kwargs, rows)]>>
                                    \o rest.results,
                        applied |-> <<exp>> \o rest.applied]
         IN  IF "callable" \in DOMAIN exp THEN called
             ELSE IF expectation_type # None /\ expectation_type \in BatchAttributes
             THEN IF expectation_type \notin EngineChecks
                  THEN [raised |-> "TypeError", results |-> <<>>, applied |-> <<exp>>]
                  ELSE called
             ELSE rest

RECURSIVE CountSuccess(_)
CountSuccess(rs) ==
    IF rs = <<>> THEN 0
    ELSE (IF Head(rs).success THEN 1 ELSE 0) + CountSuccess(Tail(rs))

\* A percentage as the exact quotient num / den.
Percent(num, den) == [num |-> num, den |-> den]
\* None where the other values are percentages: no number.
NoPercent == Percent(0, 0)

\* Mutant of batch_validate: a result is successful only if a rule was evaluated.
batch_validate_needs_a_rule(rs) ==
    [success |-> Len(rs) > 0 /\ CountSuccess(rs) = Len(rs),
     statistics |-> [evaluated_expectations |-> Len(rs),
                     successful_expectations |-> CountSuccess(rs),
                     unsuccessful_expectations |-> Len(rs) - CountSuccess(rs),
                     success_percent |-> IF Len(rs) > 0
                                         THEN Percent(100 * CountSuccess(rs), Len(rs))
                                         ELSE NoPercent],
     results |-> rs]

\* batch.validate(): the engine's result object for the rules applied; its
\* success_percent is None when no rule was evaluated.
batch_validate(rs) ==
    [success |-> CountSuccess(rs) = Len(rs),
     statistics |-> [evaluated_expectations |-> Len(rs),
                     successful_expectations |-> CountSuccess(rs),
                     unsuccessful_expectations |-> Len(rs) - CountSuccess(rs),
                     success_percent |-> IF Len(rs) > 0
                                         THEN Percent(100 * CountSuccess(rs), Len(rs))
                                         ELSE NoPercent],
     results |-> rs]

\* Mutant of format_results: the failed count is read under a key the engine's
\* statistics do not have, so it is always the default.
format_results_misses_failed(results) ==
    [shape |-> "dict",
     success |-> results.success,
     statistics |->
         [evaluated_expectations |-> Get(results.statistics, "evaluated_expectations", 0),
          successful_expectations |-> Get(results.statistics, "successful_expectations", 0),
          unsuccessful_expectations |-> Get(results.statistics, "failed_expectations", 0),
          success_percent |-> Get(results.statistics, "success_percent", Percent(0, 1))],
     results |-> results.results]

\* DatabaseValidator._format_results: a plain dict built from the engine's result.
format_results(results) ==
    [shape |-> "dict",
     success |-> results.success,
     statistics |->
         [evaluated_expectations |-> Get(results.statistics, "evaluated_expectations", 0),
          successful_expectations |-> Get(results.statistics, "successful_expectations", 0),
          unsuccessful_expectations |->
              Get(results.statistics, "unsuccessful_expectations", 0),
          success_percent |-> Get(results.statistics, "success_percent", Percent(0, 1))],
     results |-> results.results]

\* Mutant of AutoName: the generated name leaves the counter out.
AutoName_without_counter(prefix, kind, n) == prefix \o "_" \o kind

\* f"{table_name}_asset_{counter}", f"{table_name}_suite_{counter}", ...
AutoName(prefix, kind, n) == prefix \o "_" \o kind \o "_" \o ToString(n)

\* The part of validate_table / validate_query after the asset is bound:
\* suite, batch, rules, validate, _format_results.  fault: the datastore
\* fails while the batch is evaluated.
validate_asset(op, target, bound, suite_name, expectations, counter, ss, d, fault) ==
    LET ss2 == get_or_add_suite(ss, suite_name, counter)
        rows == BatchRows(bound.asset, d)
        loop == run_expectations(expectations, rows)
        report == format_results(batch_validate(loop.results))
        failed(e) == [op |-> op, target |-> target, rows |-> {}, raised |-> e,
                      bind_error |-> bound.bind_error]
        call == [op |-> op, target |-> target, rows |-> rows, raised |-> None,
                 bind_error |-> bound.bind_error]
    IN  IF bound.raised # None
        THEN [raised |-> bound.raised, report |-> None, applied |-> <<>>,
              asset_counter |-> counter, assets |-> bound.assets, suites |-> ss,
              last_validation |-> failed(bound.raised)]
        ELSE IF fault = "evaluate"
        THEN [raised |-> "OperationalError", report |-> None, applied |-> <<>>,
              asset_counter |-> counter, assets |-> bound.assets, suites |-> ss2,
              last_validation |-> failed("OperationalError")]
        ELSE IF loop.raised # None
        THEN [raised |-> loop.raised, report |-> None, applied |-> loop.applied,
              asset_counter |-> counter, assets |-> bound.assets, suites |-> ss2,
              last_validation |-> failed(loop.raised)]
        ELSE [raised |-> None, report |-> report, applied |-> loop.applied,
              asset_counter |-> counter, assets |-> bound.assets, suites |-> ss2,
              last_validation |-> call]

\* DatabaseValidator.validate_table
validate_table(table_name, suite_name, expectations, counter, as, ss, d, fault) ==
    LET n == counter + 1
        sname == IF suite_name = None THEN AutoName(table_name, "suite", n) ELSE suite_name
        bound == add_or_get_asset(as, [name |-> AutoName(table_name, "asset", n),
                                       kind |-> "table", target |-> table_name], fault)
    IN  validate_asset("validate_table", table_name, bound, sname, expectations, n, ss, d, fault)

\* DatabaseValidator.validate_query
validate_query(query, expectations, asset_name, suite_name, counter, as, ss, d, fault) ==
    LET n == counter + 1
        aname == IF asset_name = None THEN AutoName("query", "asset", n) ELSE asset_name
        sname == IF suite_name = None THEN AutoName("query", "suite", n) ELSE suite_name
        bound == add_or_get_asset(as, [name |-> aname, kind |-> "query", target |-> query],
                                  fault)
    IN  validate_asset("validate_query", query, bound, sname, expectations, n, ss, d, fault)

\* -------------------------------------------------------------------- Init
NoCall == [op |-> None, target |-> None, rows |-> {}, raised |-> None, bind_error |-> None]
NoCfg == [validator |-> None, table_name |-> None, query |-> None, query_after |-> None,
          suite_name |-> None, expectations |-> <<>>, raise_on_failure |-> TRUE]
NoOutcome == [kind |-> None, error |-> None, value |-> NoneInt]
\* A phase in which the validator has not been called (yet).
NoReport == [called |-> FALSE, raised |-> None, shape |-> None, success |-> FALSE]
NoReports == [pre |-> NoReport, post |-> NoReport]

\* No call is under observation.
NoProbe == [kind |-> None]

Init ==
    /\ db \in SUBSET Rows
    /\ asset_counter = 0
    /\ assets = {}
    /\ suites = {}
    /\ last_validation = NoCall
    /\ pc = "idle"
    /\ hook = None
    /\ cfg = NoCfg
    /\ args = NoneInt
    /\ trace = <<>>
    /\ result = NoneInt
    /\ reports = NoReports
    /\ outcome = NoOutcome
    /\ probe = NoProbe

\* ------------------------------------------- direct calls of the validator
validate_table_call ==
    /\ pc = "idle"
    /\ asset_counter < MaxCalls
    /\ \E t \in Tables, s \in SuiteNames, e \in ExpectationLists, fault \in CallFaults :
         LET r == validate_table(t, s, e, asset_counter, assets, suites, db, fault) IN
         /\ asset_counter' = r.asset_counter
         /\ assets' = r.assets
         /\ suites' = r.suites
         /\ last_validation' = r.last_validation
    /\ UNCHANGED <<db, pc, hook, cfg, args, trace, result, reports, outcome, probe>>

validate_query_call ==
    /\ pc = "idle"
    /\ asset_counter < MaxCalls
    /\ \E q \in Queries, a \in AssetNames, s \in SuiteNames, e \in ExpectationLists,
          fault \in CallFaults :
         LET r == validate_query(q, e, a, s, asset_counter, assets, suites, db, fault) IN
         /\ asset_counter' = r.asset_counter
         /\ assets' = r.assets
         /\ suites' = r.suites
         /\ last_validation' = r.last_validation
    /\ UNCHANGED <<db, pc, hook, cfg, args, trace, result, reports, outcome, probe>>

\* ------------------------------------------------------- the wrapped function
\* The value the wrapped function returns for the caller's arguments.
FuncReturn(a) == a + 40

\* The way the wrapper call ends: an exception reaches the caller / a value does.
raise_error(e) ==
    /\ pc' = "done"
    /\ outcome' = [kind |-> "raised", error |-> e, value |-> NoneInt]
return_value(v) ==
    /\ pc' = "done"
    /\ outcome' = [kind |-> "returned", error |-> None, value |-> v]

\* func(*args, **kwargs): the function writes to the datastore (inserts a row, or
\* nothing), then returns its value or raises.
call_func(a, row, raises) ==
    /\ db' = db \cup row
    /\ trace' = Append(trace, [ev |-> "func", args |-> a,
                                raised |-> IF raises THEN "FuncError" ELSE None])
    /\ result' = IF raises THEN result ELSE FuncReturn(a)

\* --------------------------------------------------------- validator calls
\* The reports a test double (unittest.mock.Mock) hands the hooks: an object with
\* a success attribute, or a plain dict.
MockReports == [shape : {"object", "dict"}, success : BOOLEAN]

\* What calling validator.validate_table / validate_query can give a hook.
validator_results(sel, asset_name, suite_name, expectations) ==
    IF cfg.validator = "Mock"
    THEN {[raised |-> None, report |-> rep, asset_counter |-> asset_counter,
           assets |-> assets, suites |-> suites, last_validation |-> last_validation]
          : rep \in MockReports}
    ELSE IF sel.op = "validate_table"
    THEN {validate_table(sel.target, suite_name, expectations,
                         asset_counter, assets, suites, db, fault) : fault \in CallFaults}
    ELSE {validate_query(sel.target, expectations, asset_name, suite_name,
                         asset_counter, assets, suites, db, fault) : fault \in CallFaults}

\* `results.success`: attribute access on what the validator returned.
success_attribute(report) ==
    IF report.shape = "object"
    THEN [raised |-> None, success |-> report.success]
    ELSE [raised |-> "AttributeError", success |-> FALSE]

\* validate_before / validate_after: `if table_name: ... elif query: ... else: raise`.
select_target(table_name, query) ==
    IF table_name # None THEN [op |-> "validate_table", target |-> table_name]
    ELSE IF query # None THEN [op |-> "validate_query", target |-> query]
    ELSE [op |-> "ValueError", target |-> None]

\* validate_both: `if table_name or query_x:` with q and t chosen from the two.
select_target_both(table_name, query_x) ==
    IF table_name # None \/ query_x # None
    THEN LET q == IF query_x # None THEN query_x ELSE None
             t == IF query_x = None THEN table_name ELSE None
         IN  IF t # None THEN [op |-> "validate_table", target |-> t]
             ELSE [op |-> "validate_query", target |-> q]
    ELSE [op |-> "skip", target |-> None]

\* The exception raised inside the try block once the validator call has given r
\* (None when the block runs to its end).
raised_in_try(sel, r, raise_on_failure) ==
    IF sel.op = "ValueError" THEN "ValueError"
    ELSE IF sel.op = "skip" THEN None
    ELSE IF r.raised # None THEN r.raised
    ELSE LET s == success_attribute(r.report) IN
         IF s.raised # None THEN s.raised
         ELSE IF ~s.success /\ raise_on_failure THEN "AssertionError"
         ELSE None

\* Mutant of except_handler: the handler re-raises whatever raise_on_failure is.
except_handler_always_raises(e, raise_on_failure) == e

\* `except Exception as e: ... if raise_on_failure: raise`: the exception that
\* leaves the try statement (None when it is swallowed or there was none).
except_handler(e, raise_on_failure) ==
    IF e # None /\ raise_on_failure THEN e ELSE None

NoResult == [raised |-> None, report |-> None, asset_counter |-> asset_counter,
             assets |-> assets, suites |-> suites, last_validation |-> last_validation]

\* What the wrapper call did in a phase of which r is the validator's answer.
phase_report(sel, r) ==
    IF sel.op \notin {"validate_table", "validate_query"} THEN NoReport
    ELSE IF r.raised # None
    THEN [called |-> TRUE, raised |-> r.raised, shape |-> None, success |-> FALSE]
    ELSE [called |-> TRUE, raised |-> None, shape |-> r.report.shape,
          success |-> r.report.success]

\* The validator call of one validation phase of a wrapper (pre or post): the
\* validator's state after it, and the record of the call.
validation_phase(phase, sel, r) ==
    /\ asset_counter' = r.asset_counter
    /\ assets' = r.assets
    /\ suites' = r.suites
    /\ last_validation' = r.last_validation
    /\ reports' = [reports EXCEPT ![phase] = phase_report(sel, r)]
    /\ trace' = IF sel.op \in {"validate_table", "validate_query"}
                THEN Append(trace, [ev |-> sel.op, args |-> NoneInt, raised |-> r.raised])
                ELSE trace

phase_results(sel, asset_name, suite_name, expectations) ==
    IF sel.op \in {"validate_table", "validate_query"}
    THEN validator_results(sel, asset_name, suite_name, expectations)
    ELSE {NoResult}

\* ------------------------------------------------------------- hook calls
Validators == {"DatabaseValidator", "Mock"}
HookSuiteNames == {None}
HookExpectationLists == {<<>>, <<RowCountExp(1, MaxRow)>>}
OptTables == Tables \cup {None}
OptQueries == Queries \cup {None}

\* Validator calls a wrapper of the hook may make.
CallsNeeded(h) == IF h = "validate_both" THEN 2 ELSE 1

\* The validator the decorator was given: the DatabaseValidator instance (with
\* calls left within MaxCalls), or a test double in a program that has made no
\* call on a DatabaseValidator.
validator_available(v, h) ==
    IF v = "DatabaseValidator" THEN asset_counter + CallsNeeded(h) <= MaxCalls
    ELSE asset_counter = 0

\* The caller calls a wrapper built by validate_before / validate_after.
wrapper_call ==
    /\ pc = "idle"
    /\ \E h \in {"validate_before", "validate_after"}, v \in Validators,
          t \in OptTables, q \in OptQueries, s \in HookSuiteNames,
          e \in HookExpectationLists, rof \in BOOLEAN, a \in Args :
         /\ validator_available(v, h)
         /\ hook' = h
         /\ cfg' = [validator |-> v, table_name |-> t, query |-> q, query_after |-> None,
                    suite_name |-> s, expectations |-> e, raise_on_failure |-> rof]
         /\ args' = a
         /\ pc' = IF h = "validate_before" THEN "pre" ELSE "func"
    /\ trace' = <<>>
    /\ result' = NoneInt
    /\ reports' = NoReports
    /\ outcome' = NoOutcome
    /\ UNCHANGED <<db, asset_counter, assets, suites, last_validation, probe>>

\* The caller calls a wrapper built by validate_both.
wrapper_call_both ==
    /\ pc = "idle"
    /\ \E v \in Validators, t \in OptTables, q \in OptQueries, qa \in OptQueries,
          e \in HookExpectationLists, rof \in BOOLEAN, a \in Args :
         /\ validator_available(v, "validate_both")
         /\ hook' = "validate_both"
         /\ cfg' = [validator |-> v, table_name |-> t, query |-> q, query_after |-> qa,
                    suite_name |-> None, expectations |-> e, raise_on_failure |-> rof]
         /\ args' = a
         /\ pc' = "pre"
    /\ trace' = <<>>
    /\ result' = NoneInt
    /\ reports' = NoReports
    /\ outcome' = NoOutcome
    /\ UNCHANGED <<db, asset_counter, assets, suites, last_validation, probe>>

\* validate_before.wrapper, the try statement.
validate_before_pre ==
    /\ pc = "pre" /\ hook = "validate_before"
    /\ LET sel == select_target(cfg.table_name, cfg.query)
           asset_name == FuncName \o "_pre"
       IN  \E r \in phase_results(sel, asset_name, cfg.suite_name, cfg.expectations) :
             LET err == except_handler(raised_in_try(sel, r, cfg.raise_on_failure),
                                       cfg.raise_on_failure)
             IN  /\ validation_phase("pre", sel, r)
                 /\ IF err # None THEN raise_error(err)
                    ELSE pc' = "func" /\ UNCHANGED outcome
    /\ UNCHANGED <<db, hook, cfg, args, result, probe>>

\* validate_before.wrapper, `return func(*args, **kwargs)`.
validate_before_func ==
    /\ pc = "func" /\ hook = "validate_before"
    /\ \E row \in {{}} \cup {{x} : x \in Rows}, raises \in BOOLEAN :
         /\ call_func(args, row, raises)
         /\ IF raises THEN raise_error("FuncError") ELSE return_value(result')
    /\ UNCHANGED <<asset_counter, assets, suites, last_validation, hook, cfg, args, reports,
                   probe>>

\* Mutant of validate_after_func: an exception of the function is swallowed and
\* the wrapper goes on to its post-validation.
validate_after_func_swallows ==
    /\ pc = "func" /\ hook = "validate_after"
    /\ \E row \in {{}} \cup {{x} : x \in Rows}, raises \in BOOLEAN :
         /\ call_func(args, row, raises)
         /\ pc' = "post" /\ UNCHANGED outcome
    /\ UNCHANGED <<asset_counter, assets, suites, last_validation, hook, cfg, args, reports,
                   probe>>

\* validate_after.wrapper, `result = func(*args, **kwargs)`.
validate_after_func ==
    /\ pc = "func" /\ hook = "validate_after"
    /\ \E row \in {{}} \cup {{x} : x \in Rows}, raises \in BOOLEAN :
         /\ call_func(args, row, raises)
         /\ IF raises THEN raise_error("FuncError")
            ELSE pc' = "post" /\ UNCHANGED outcome
    /\ UNCHANGED <<asset_counter, assets, suites, last_validation, hook, cfg, args, reports,
                   probe>>

\* validate_after.wrapper, the try statement and `return result`.
validate_after_post ==
    /\ pc = "post" /\ hook = "validate_after"
    /\ LET sel == select_target(cfg.table_name, cfg.query)
           asset_name == FuncName \o "_post"
       IN  \E r \in phase_results(sel, asset_name, cfg.suite_name, cfg.expectations) :
             LET err == except_handler(raised_in_try(sel, r, cfg.raise_on_failure),
                                       cfg.raise_on_failure)
             IN  /\ validation_phase("post", sel, r)
                 /\ IF err # None THEN raise_error(err) ELSE return_value(result)
    /\ UNCHANGED <<db, hook, cfg, args, result, probe>>

\* validate_both.wrapper, the first try statement.
validate_both_pre ==
    /\ pc = "pre" /\ hook = "validate_both"
    /\ LET sel == select_target_both(cfg.table_name, cfg.query)
           asset_name == FuncName \o "_pre"
       IN  \E r \in phase_results(sel, asset_name, cfg.suite_name, cfg.expectations) :
             LET err == except_handler(raised_in_try(sel, r, cfg.raise_on_failure),
                                       cfg.raise_on_failure)
             IN  /\ validation_phase("pre", sel, r)
                 /\ IF err # None THEN raise_error(err)
                    ELSE pc' = "func" /\ UNCHANGED outcome
    /\ UNCHANGED <<db, hook, cfg, args, result, probe>>

\* validate_both.wrapper, `result = func(*args, **kwargs)`.
validate_both_func ==
    /\ pc = "func" /\ hook = "validate_both"
    /\ \E row \in {{}} \cup {{x} : x \in Rows}, raises \in BOOLEAN :
         /\ call_func(args, row, raises)
         /\ IF raises THEN raise_error("FuncError")
            ELSE pc' = "post" /\ UNCHANGED outcome
    /\ UNCHANGED <<asset_counter, assets, suites, last_validation, hook, cfg, args, reports,
                   probe>>

\* validate_both.wrapper, the second try statement and `return result`.
validate_both_post ==
    /\ pc = "post" /\ hook = "validate_both"
    /\ LET sel == select_target_both(cfg.table_name, cfg.query_after)
           asset_name == FuncName \o "_post"
       IN  \E r \in phase_results(sel, asset_name, cfg.suite_name, cfg.expectations) :
             LET err == except_handler(raised_in_try(sel, r, cfg.raise_on_failure),
                                       cfg.raise_on_failure)
             IN  /\ validation_phase("post", sel, r)
                 /\ IF err # None THEN raise_error(err) ELSE return_value(result)
    /\ UNCHANGED <<db, hook, cfg, args, result, probe>>

\* The wrapper call is over: control is back with the caller.
wrapper_done ==
    /\ pc = "done"
    /\ pc' = "idle"
    /\ hook' = None
    /\ cfg' = NoCfg
    /\ args' = NoneInt
    /\ trace' = <<>>
    /\ result' = NoneInt
    /\ reports' = NoReports
    /\ outcome' = NoOutcome
    /\ UNCHANGED <<db, asset_counter, assets, suites, last_validation, probe>>


Next ==
    \/ validate_table_call
    \/ validate_query_call
    \/ wrapper_call
    \/ wrapper_call_both
    \/ validate_before_pre
    \/ validate_before_func
    \/ validate_after_func
    \/ validate_after_post
    \/ validate_both_pre
    \/ validate_both_func
    \/ validate_both_post
    \/ wrapper_done

Spec == Init /\ [][Next]_vars

\* ------------------------------------------------------------------ claims
Done == pc = "done"
Raised(e) == outcome.kind = "raised" /\ outcome.error = e
Returned(v) == outcome.kind = "returned" /\ outcome.value = v
\* The validator was called in the phase and returned a report.
ReportGiven(rep) == rep.called /\ rep.raised = None
\* The validator was called in the phase and raised.
ValidatorRaised(rep) == rep.called /\ rep.raised # None
FuncCalls == {i \in 1..Len(trace) : trace[i].ev = "func"}
ValidatorCalls == {i \in 1..Len(trace) : trace[i].ev \in {"validate_table", "validate_query"}}
FuncRaised == \E i \in FuncCalls : trace[i].raised # None
\* The function was invoked exactly once, with the caller's arguments.
FuncCalledOnce == Cardinality(FuncCalls) = 1 /\ \A i \in FuncCalls : trace[i].args = args
\* The wrapper gave its caller what the function gave: its value, or its exception.
FuncOutcome == IF FuncRaised THEN Raised("FuncError") ELSE Returned(FuncReturn(args))
\* Both a table and a query, or neither.
BadTarget(table_name, query) == (table_name # None) = (query # None)

\* C1: validate_before with raise_on_failure=True: whenever the pre-validation
\* report has success = false, the wrapper raises AssertionError and the wrapped
\* function is not invoked.
C1_FailingPreRaisesAssertion ==
    (Done /\ hook = "validate_before" /\ cfg.raise_on_failure
          /\ ReportGiven(reports.pre) /\ ~reports.pre.success)
    => (Raised("AssertionError") /\ FuncCalls = {})

\* C2: with a real DatabaseValidator the hook's decision equals the report's
\* success field: a passing report lets the function's result through without a
\* validation error, a failing report under raise_on_failure=True raises
\* AssertionError.
C2_HookConsumesValidatorReport ==
    LET rep == IF hook = "validate_after" THEN reports.post ELSE reports.pre IN
    (Done /\ hook \in {"validate_before", "validate_after"}
          /\ cfg.validator = "DatabaseValidator" /\ ReportGiven(rep))
    => /\ rep.success => FuncOutcome
       /\ (~rep.success /\ cfg.raise_on_failure) => Raised("AssertionError")

\* C3: an exception raised inside the validator propagates to the caller of the
\* wrapper under raise_on_failure=True and raise_on_failure=False alike, in all
\* three hooks.
C3_ValidatorErrorPropagates ==
    Done => \A ph \in {"pre", "post"} :
              ValidatorRaised(reports[ph]) => Raised(reports[ph].raised)

\* C4: a hook given both a table and a query for a phase, or neither, fails with
\* a configuration error (ValueError) whatever raise_on_failure is, without
\* calling the validator for that phase.
C4_BadTargetIsConfigurationError ==
    /\ (Done /\ hook = "validate_before" /\ BadTarget(cfg.table_name, cfg.query))
       => (Raised("ValueError") /\ ValidatorCalls = {})
    /\ (Done /\ hook = "validate_after" /\ BadTarget(cfg.table_name, cfg.query)
             /\ ~FuncRaised)
       => (Raised("ValueError") /\ ValidatorCalls = {})
    /\ (Done /\ hook = "validate_both" /\ BadTarget(cfg.table_name, cfg.query))
       => (Raised("ValueError") /\ ValidatorCalls = {})
    /\ (Done /\ hook = "validate_both" /\ ~BadTarget(cfg.table_name, cfg.query)
             /\ BadTarget(cfg.table_name, cfg.query_after) /\ FuncCalls # {} /\ ~FuncRaised)
       => (Raised("ValueError") /\ ~reports.post.called)

\* C5: every validate_query call that returns evaluated its rules on exactly the
\* rows the query passed in that call returns, whatever calls came before.
C5_QueryBatchIsTheQueryPassed ==
    [][(/\ asset_counter' # asset_counter
        /\ last_validation'.op = "validate_query"
        /\ last_validation'.raised = None)
       => last_validation'.rows = QueryRows(last_validation'.target, db)]_vars

\* C6: validate_before: whenever the pre-validation report has success = true,
\* the wrapped function is invoked exactly once with the caller's arguments and
\* the wrapper gives its caller what the function gave.
C6_PassingPreRunsFunction ==
    (Done /\ hook = "validate_before" /\ ReportGiven(reports.pre) /\ reports.pre.success)
    => (FuncCalledOnce /\ FuncOutcome)

\* C7: validate_before with raise_on_failure=False and a target supplied: whenever
\* the pre-validation reports success = false, no validation error is raised, the
\* wrapped function is invoked exactly once and its result is what the wrapper
\* gives its caller.
C7_NonStrictFailingPreProceeds ==
    (Done /\ hook = "validate_before" /\ ~cfg.raise_on_failure
          /\ ReportGiven(reports.pre) /\ ~reports.pre.success)
    => (FuncCalledOnce /\ FuncOutcome)

C7_Witness ==
    /\ Done /\ hook = "validate_before" /\ ~cfg.raise_on_failure
    /\ cfg.validator = "DatabaseValidator"
    /\ ReportGiven(reports.pre) /\ ~reports.pre.success
    /\ Returned(FuncReturn(args))

\* C8: validate_after with raise_on_failure=True: the function is invoked exactly
\* once and before any validator call; if the post-validation report then has
\* success = false the wrapper raises AssertionError instead of returning.
C8_StrictFailingPostRaisesAssertion ==
    (Done /\ hook = "validate_after" /\ cfg.raise_on_failure)
    => /\ FuncCalledOnce /\ trace[1].ev = "func"
       /\ (ReportGiven(reports.post) /\ ~reports.post.success) => Raised("AssertionError")

\* C9: validate_after returns the function's value for every report when
\* raise_on_failure=False, and for a passing report under either setting.
C9_AfterPreservesReturnValue ==
    (Done /\ hook = "validate_after" /\ ReportGiven(reports.post)
          /\ (~cfg.raise_on_failure \/ reports.post.success))
    => Returned(FuncReturn(args))

\* C10: in all three hooks an exception raised by the wrapped function reaches
\* the caller unchanged whatever raise_on_failure is, and the validator is not
\* called for the post phase after the function raised.
C10_FunctionErrorPropagates ==
    (pc \in {"post", "done"} /\ FuncRaised)
    => /\ Done /\ Raised("FuncError")
       /\ trace[Len(trace)].ev = "func"
       /\ ~reports.post.called

C10_Witness ==
    /\ Done /\ hook = "validate_both" /\ ~cfg.raise_on_failure
    /\ reports.pre.called /\ FuncRaised /\ Raised("FuncError")

\* The events of the trace are those of the phases in their order: the pre-phase
\* validator call (when there was one), then the function, then the post-phase
\* validator call, which comes only after the function returned.
PhasesInOrder ==
    LET np == IF reports.pre.called THEN 1 ELSE 0 IN
    /\ pc = "pre" => trace = <<>>
    /\ Len(trace) <= np + 2
    /\ \A i \in 1..Len(trace) : (i \in ValidatorCalls) <=> (i <= np \/ i = np + 2)
    /\ \A i \in 1..Len(trace) : (i \in FuncCalls) <=> (i = np + 1)
    /\ reports.post.called <=> Len(trace) = np + 2
    /\ reports.post.called => trace[np + 1].raised = None

\* C11: each call of a validate_both wrapper goes through pre-validation, the
\* function, post-validation in that order, each at most once, the post phase only
\* after the function returned; and when both reports pass, the validator has been
\* called exactly twice and the function exactly once and the wrapper returns the
\* function's result.
C11_BothPhasesInFixedOrder ==
    hook = "validate_both"
    => /\ PhasesInOrder
       /\ (Done /\ ReportGiven(reports.pre) /\ reports.pre.success
                 /\ ReportGiven(reports.post) /\ reports.post.success)
          => /\ Cardinality(ValidatorCalls) = 2
             /\ FuncCalledOnce
             /\ Returned(FuncReturn(args))

\* C12: validate_both with raise_on_failure=True: whenever the pre-validation
\* report has success = false, the wrapper raises AssertionError, the wrapped
\* function is not invoked and no post-validation is performed: the validator is
\* called exactly once in that call.
C12_BothFailingPreRaisesAssertion ==
    (Done /\ hook = "validate_both" /\ cfg.raise_on_failure
          /\ ReportGiven(reports.pre) /\ ~reports.pre.success)
    => /\ Raised("AssertionError")
       /\ FuncCalls = {}
       /\ ~reports.post.called
       /\ Cardinality(ValidatorCalls) = 1

\* ------------------------------------------- wrappers as functions of a run
\* What the validator answers a hook's call: it raises, or it returns a report.
Answers ==
    {[raised |-> "OperationalError", report |-> None]}
    \cup {[raised |-> None, report |-> rep] : rep \in MockReports}

\* What a callable did when called: its validator calls and function
\* invocations in order, and what it gave its caller.
Run(events, kind, error, value) ==
    [events |-> events, outcome |-> [kind |-> kind, error |-> error, value |-> value]]

\* The wrapped function called with argument a.
func_run(a, raises) ==
    IF raises THEN Run(<<[ev |-> "func", target |-> None]>>, "raised", "FuncError", NoneInt)
    ELSE Run(<<[ev |-> "func", target |-> None]>>, "returned", None, FuncReturn(a))

\* One try statement of a wrapper: the validator call it makes (if any) and the
\* exception that leaves it (None when there is none).
phase_run(sel, ans, raise_on_failure) ==
    [events |-> IF sel.op \in {"validate_table", "validate_query"}
                THEN <<[ev |-> sel.op, target |-> sel.target]>> ELSE <<>>,
     err |-> except_handler(raised_in_try(sel, ans, raise_on_failure), raise_on_failure)]

\* validate_before(validator, table_name, query, raise_on_failure)(inner)(): the
\* try statement, then `return func(*args, **kwargs)`.
validate_before_run(table_name, query, raise_on_failure, ans, inner) ==
    LET pre == phase_run(select_target(table_name, query), ans, raise_on_failure) IN
    IF pre.err # None THEN Run(pre.events, "raised", pre.err, NoneInt)
    ELSE [events |-> pre.events \o inner.events, outcome |-> inner.outcome]

\* validate_after(validator, table_name, query, raise_on_failure)(inner)():
\* `result = func(*args, **kwargs)`, the try statement, `return result`.
validate_after_run(table_name, query, raise_on_failure, ans, inner) ==
    IF inner.outcome.kind = "raised" THEN inner
    ELSE LET post == phase_run(select_target(table_name, query), ans, raise_on_failure) IN
         IF post.err # None THEN Run(inner.events \o post.events, "raised", post.err, NoneInt)
         ELSE [events |-> inner.events \o post.events, outcome |-> inner.outcome]

\* validate_both(validator, table_name, query_before, query_after,
\* raise_on_failure)(inner)(): the two try statements around the call.
validate_both_run(table_name, query_before, query_after, raise_on_failure, ans_pre, ans_post, inner) ==
    LET pre == phase_run(select_target_both(table_name, query_before), ans_pre,
                         raise_on_failure)
        post == phase_run(select_target_both(table_name, query_after), ans_post,
                          raise_on_failure)
    IN  IF pre.err # None THEN Run(pre.events, "raised", pre.err, NoneInt)
        ELSE IF inner.outcome.kind = "raised"
        THEN [events |-> pre.events \o inner.events, outcome |-> inner.outcome]
        ELSE IF post.err # None
        THEN Run(pre.events \o inner.events \o post.events, "raised", post.err, NoneInt)
        ELSE [events |-> pre.events \o inner.events \o post.events,
              outcome |-> inner.outcome]

\* A program decorates the same function both ways, with the same pre and post
\* configuration, and calls each once against a validator that answers alike.
decorate_both_ways ==
    /\ probe.kind = None
    /\ \E t \in OptTables, qb \in OptQueries, qa \in OptQueries, rof \in BOOLEAN,
          ans_pre \in Answers, ans_post \in Answers, a \in Args, raises \in BOOLEAN :
         probe' = [kind |-> "decorate",
                   table_name |-> t, query_before |-> qb, query_after |-> qa,
                   raise_on_failure |-> rof, ans_pre |-> ans_pre, ans_post |-> ans_post,
                   both |-> validate_both_run(t, qb, qa, rof, ans_pre, ans_post,
                                              func_run(a, raises)),
                   nested |-> validate_before_run(t, qb, rof, ans_pre,
                                  validate_after_run(t, qa, rof, ans_post,
                                                     func_run(a, raises)))]
    /\ UNCHANGED <<db, asset_counter, assets, suites, last_validation,
                   pc, hook, cfg, args, trace, result, reports, outcome>>

NextDecorate == decorate_both_ways

SpecDecorate == Init /\ [][NextDecorate]_vars

\* C13: validate_both with a pre and a post configuration does what validate_before
\* (pre configuration) applied on top of validate_after (post configuration) does
\* around the same function: the same sequence of validator calls and function
\* invocation and the same returned value or raised error, for every combination
\* of targets, raise_on_failure and validation outcomes.
C13_BothIsBeforeOverAfter ==
    probe.kind = "decorate" => probe.both = probe.nested

\* ------------------------------------------------- a freshness suite in time
\* The values of column users.created_at are the rows' values: hours on a clock
\* that reads at least MaxRow when the suite is built and at most MaxTime.
AgeHours == {1, 2}

\* ExpectationSuites.data_freshness_check, called when the clock reads now.
data_freshness_check(timestamp_column, max_age_hours, now) ==
    LET cutoff == now - max_age_hours IN
    <<[expectation_type |-> "expect_column_values_to_be_between",
       kwargs |-> [column |-> timestamp_column, min_value |-> cutoff,
                   max_value |-> NoneInt, parse_strings_as_datetimes |-> TRUE]]>>

\* The program builds the suite (as the argument of a decorator, or in a variable).
build_suite ==
    /\ probe.kind = None
    /\ \E h \in AgeHours, now \in MaxRow..(MaxTime - 1) :
         probe' = [kind |-> "fresh", now |-> now, max_age_hours |-> h,
                   suite |-> data_freshness_check("created_at", h, now),
                   evaluated |-> FALSE, success |-> FALSE]
    /\ UNCHANGED <<db, asset_counter, assets, suites, last_validation,
                   pc, hook, cfg, args, trace, result, reports, outcome>>

\* An hour passes.
tick ==
    /\ probe.kind = "fresh"
    /\ probe.now < MaxTime
    /\ probe' = [probe EXCEPT !.now = @ + 1, !.evaluated = FALSE]
    /\ UNCHANGED <<db, asset_counter, assets, suites, last_validation,
                   pc, hook, cfg, args, trace, result, reports, outcome>>

\* The suite is evaluated on table users: validate_table("users", expectations=suite).
evaluate_suite ==
    /\ probe.kind = "fresh"
    /\ asset_counter < MaxCalls
    /\ LET r == validate_table("users", None, probe.suite,
                               asset_counter, assets, suites, db, "none")
       IN  /\ asset_counter' = r.asset_counter
           /\ assets' = r.assets
           /\ suites' = r.suites
           /\ last_validation' = r.last_validation
           /\ probe' = [probe EXCEPT !.evaluated = TRUE, !.success = r.report.success]
    /\ UNCHANGED <<db, pc, hook, cfg, args, trace, result, reports, outcome>>

NextFresh ==
    \/ build_suite
    \/ tick
    \/ evaluate_suite

SpecFresh == Init /\ [][NextFresh]_vars

\* C14: a suite built by data_freshness_check(column, max_age_hours) passes exactly
\* when every evaluated timestamp is at least the time of the evaluation minus
\* max_age_hours, whatever time passed between building and evaluating it; the
\* rule has no upper bound on the timestamps.
C14_FreshnessRelativeToEvaluation ==
    (probe.kind = "fresh" /\ probe.evaluated)
    => /\ probe.success <=> (\A r \in db : r >= probe.now - probe.max_age_hours)
       /\ probe.suite[1].kwargs.max_value = NoneInt

\* ------------------------------------------ calls on the validator, observed
\* The asset_name arguments of the observed validate_query calls.
ObservedQueryAssetNames == {None, AutoName("query", "asset", MaxObservedCalls)}
\* A descriptor whose expectation_type names no check of the engine.
UnknownExp == [expectation_type |-> "expect_nothing", kwargs |-> <<>>]
\* A descriptor whose expectation_type names an attribute of the batch object that
\* is not a check.
AttributeExp == [expectation_type |-> "__eq__", kwargs |-> <<>>]
\* A callable entry: lambda batch: batch.expect_table_row_count_to_be_between(...).
CallableExp(lo, hi) ==
    [callable |-> TRUE, expectation_type |-> "expect_table_row_count_to_be_between",
     kwargs |-> [min_value |-> lo, max_value |-> hi]]
ObservedExpectationLists ==
    {<<>>,
     <<RowCountExp(1, MaxRow)>>,
     <<UntypedExp, RowCountExp(0, 0), UnknownExp, CallableExp(1, MaxRow)>>,
     <<RowCountExp(1, MaxRow), AttributeExp>>}

\* No report: the call raised.
NoDict == [shape |-> None]
NoObserved ==
    [op |-> None, target |-> None, suite_name |-> None, asset_name |-> None,
     expectations |-> <<>>, fault |-> "none", applied |-> <<>>,
     raised |-> None, bind_error |-> None, report |-> NoDict]

\* The record of a call: its arguments and what it gave.
Observed(op, target, suite_name, asset_name, expectations, fault, r) ==
    [op |-> op, target |-> target, suite_name |-> suite_name, asset_name |-> asset_name,
     expectations |-> expectations, fault |-> fault, applied |-> r.applied,
     raised |-> r.raised, bind_error |-> r.last_validation.bind_error,
     report |-> IF r.raised = None THEN r.report ELSE NoDict]

\* The two calls have the same target, suite_name, asset_name and descriptors.
SameArguments(a, b) ==
    /\ a.op = b.op
    /\ a.target = b.target
    /\ a.suite_name = b.suite_name
    /\ a.asset_name = b.asset_name
    /\ a.expectations = b.expectations

\* The validator's state after a call, the record of the call (last), and the
\* record of the call before it (prev) when the call repeats that one: the same
\* arguments, and table users not written in between.
observe(call, r) ==
    /\ asset_counter' = r.asset_counter
    /\ assets' = r.assets
    /\ suites' = r.suites
    /\ last_validation' = r.last_validation
    /\ probe' = [kind |-> "calls", written |-> FALSE,
                 prev |-> IF probe.kind = "calls" /\ ~probe.written
                             /\ SameArguments(probe.last, call)
                          THEN probe.last ELSE NoObserved,
                 last |-> call]

\* The program calls validator.validate_table(...) while nothing goes wrong in
\* the datastore.
observed_validate_table ==
    /\ probe.kind \in {None, "calls"}
    /\ asset_counter < MaxObservedCalls
    /\ \E t \in Tables, s \in SuiteNames, e \in ObservedExpectationLists :
         LET r == validate_table(t, s, e, asset_counter, assets, suites, db, "none") IN
         observe(Observed("validate_table", t, s, None, e, "none", r), r)
    /\ UNCHANGED <<db, pc, hook, cfg, args, trace, result, reports, outcome>>

\* The program calls validator.validate_query(...) while nothing goes wrong in
\* the datastore.
observed_validate_query ==
    /\ probe.kind \in {None, "calls"}
    /\ asset_counter < MaxObservedCalls
    /\ \E q \in Queries, a \in ObservedQueryAssetNames, e \in ObservedExpectationLists :
         LET r == validate_query(q, e, a, None, asset_counter, assets, suites, db, "none") IN
         observe(Observed("validate_query", q, None, a, e, "none", r), r)
    /\ UNCHANGED <<db, pc, hook, cfg, args, trace, result, reports, outcome>>

\* Something writes table users between two calls.
write_rows ==
    /\ probe.kind = "calls"
    /\ \E x \in Rows : db' = db \cup {x} /\ db' # db
    /\ probe' = [probe EXCEPT !.written = TRUE]
    /\ UNCHANGED <<asset_counter, assets, suites, last_validation,
                   pc, hook, cfg, args, trace, result, reports, outcome>>

NextCalls ==
    \/ observed_validate_table
    \/ observed_validate_query
    \/ write_rows

SpecCalls == Init /\ [][NextCalls]_vars

\* The last two calls had the same arguments and ran on the same data.
SameCallTwice ==
    /\ probe.kind = "calls"
    /\ probe.prev.op # None
    /\ SameArguments(probe.prev, probe.last)

\* C15: calling validate_table (or validate_query) twice with the same target, the
\* same suite_name and the same descriptors against unchanged data yields
\* identical reports: same success, same counts, same per-rule results in order.
C15_SameCallSameReport ==
    (SameCallTwice /\ probe.prev.raised = None /\ probe.last.raised = None)
    => probe.last.report = probe.prev.report

\* ------------------------------------- calls on a datastore that can fail
\* The program calls validator.validate_table(...); the datastore may fail while
\* the asset is registered or while the batch is evaluated.
faulty_validate_table ==
    /\ probe.kind \in {None, "calls"}
    /\ asset_counter < MaxCalls
    /\ \E t \in Tables, s \in SuiteNames, e \in HookExpectationLists, fault \in Faults :
         LET r == validate_table(t, s, e, asset_counter, assets, suites, db, fault) IN
         observe(Observed("validate_table", t, s, None, e, fault, r), r)
    /\ UNCHANGED <<db, pc, hook, cfg, args, trace, result, reports, outcome>>

\* The program calls validator.validate_query(...) likewise.
faulty_validate_query ==
    /\ probe.kind \in {None, "calls"}
    /\ asset_counter < MaxCalls
    /\ \E q \in Queries, a \in AssetNames, s \in SuiteNames, e \in HookExpectationLists,
          fault \in Faults :
         LET r == validate_query(q, e, a, s, asset_counter, assets, suites, db, fault) IN
         observe(Observed("validate_query", q, s, a, e, fault, r), r)
    /\ UNCHANGED <<db, pc, hook, cfg, args, trace, result, reports, outcome>>

NextFaulty ==
    \/ faulty_validate_table
    \/ faulty_validate_query

SpecFaulty == Init /\ [][NextFaulty]_vars

\* C16: an error raised while validate_table / validate_query binds the target
\* (registers the table or query asset) reaches the caller as that same error: it
\* is not replaced by another error and the call does not return a report instead.
C16_BindingErrorPropagates ==
    (probe.kind = "calls" /\ probe.last.bind_error # None)
    => /\ probe.last.raised = probe.last.bind_error
       /\ probe.last.report = NoDict

\* The descriptor names a check of the engine.
NamesCheck(exp) ==
    "expectation_type" \in DOMAIN exp /\ exp.expectation_type \in EngineChecks
\* The descriptors of the suite that name a check, in their order.
KnownOnly(expectations) == SelectSeq(expectations, NamesCheck)

\* C17: a descriptor whose expectation_type names no check of the engine, or that
\* has no expectation_type, is skipped silently: the call raises no error, the
\* descriptor is not counted as a failure, and every other descriptor of the suite
\* is evaluated (the report is that of the suite without the descriptor).
C17_UnknownDescriptorSkipped ==
    LET last == probe.last
        known == KnownOnly(last.expectations)
    IN  (probe.kind = "calls" /\ Len(known) < Len(last.expectations))
        => /\ last.raised = None
           /\ last.report.statistics.evaluated_expectations = Len(known)
           /\ Len(last.report.results) = Len(known)
           /\ \A i \in 1..Len(known) :
                /\ last.report.results[i].expectation_type = known[i].expectation_type
                /\ last.report.results[i].success
                   = RunCheck(known[i].expectation_type, known[i].kwargs,
                              last_validation.rows)
           /\ last.report.statistics.unsuccessful_expectations
              = Cardinality({i \in 1..Len(known) : ~last.report.results[i].success})

\* The last observed call returned a report.
Reported == probe.kind = "calls" /\ probe.last.raised = None

\* C18: validate_table / validate_query with an empty suite against a valid target
\* returns a report with evaluated = 0 and success = true.
C18_EmptySuitePasses ==
    (probe.kind = "calls" /\ probe.last.expectations = <<>>)
    => /\ probe.last.raised = None
       /\ probe.last.report.statistics.evaluated_expectations = 0
       /\ probe.last.report.success

C18_Witness ==
    /\ Reported /\ probe.last.expectations = <<>>
    /\ probe.last.op = "validate_query" /\ last_validation.rows # {}
    /\ probe.last.report.statistics.evaluated_expectations = 0
    /\ probe.last.report.success

\* C19: every report returned by validate_table / validate_query has
\* evaluated = succeeded + failed and success = (failed = 0).
C19_ReportCountsAddUp ==
    Reported
    => LET st == probe.last.report.statistics IN
       /\ st.evaluated_expectations
          = st.successful_expectations + st.unsuccessful_expectations
       /\ probe.last.report.success <=> (st.unsuccessful_expectations = 0)

C19_Witness ==
    /\ Reported
    /\ probe.last.report.statistics.evaluated_expectations = 2
    /\ probe.last.report.statistics.successful_expectations = 1
    /\ probe.last.report.statistics.unsuccessful_expectations = 1
    /\ ~probe.last.report.success

\* C20: in every report returned by validate_table / validate_query,
\* success_percent is 100 * succeeded / evaluated when evaluated > 0, and 100 when
\* evaluated = 0.
C20_SuccessPercent ==
    Reported
    => LET st == probe.last.report.statistics
           percent == st.success_percent
       IN  /\ percent.den > 0
           /\ st.evaluated_expectations > 0
              => percent.num * st.evaluated_expectations
                 = 100 * st.successful_expectations * percent.den
           /\ st.evaluated_expectations = 0 => percent.num = 100 * percent.den

\* The entry is applied to the batch: a callable, or a descriptor naming a check.
Applicable(exp) == "callable" \in DOMAIN exp \/ NamesCheck(exp)

Columns == {"age", "price"}
\* Lists of columns, a column twice included.
ColumnLists ==
    {<<>>} \cup {<<c>> : c \in Columns} \cup {<<c, d>> : c \in Columns, d \in Columns}
\* The bounds given in a range definition.
RangeBounds == {1, MaxRow}
\* A range definition {"min": ..., "max": ...}: keys are the keys the dict has.
RangeDef(keys, lo, hi) ==
    [keys |-> keys, min |-> IF "min" \in keys THEN lo ELSE NoneInt,
     max |-> IF "max" \in keys THEN hi ELSE NoneInt]
RangeDefs == {RangeDef(k, lo, hi) : k \in SUBSET {"min", "max"}, lo \in RangeBounds, hi \in RangeBounds}
\* column_ranges: a dict of range definitions by column, as the list of its items.
ColumnRanges ==
    {<<>>} \cup {<<<<c, r>>>> : c \in Columns, r \in RangeDefs}
    \cup {<<<<"age", r>>, <<"price", q>>>> : r \in RangeDefs, q \in RangeDefs}
    \cup {<<<<"price", r>>, <<"age", q>>>> : r \in RangeDefs, q \in RangeDefs}

\* Mutant of null_checks: the comprehension loses the last column.
null_checks_loses_last(columns) ==
    [i \in 1..(Len(columns) - 1) |->
        [expectation_type |-> "expect_column_values_to_not_be_null",
         kwargs |-> [column |-> columns[i]]]]

\* ExpectationSuites.null_checks
null_checks(columns) ==
    [i \in 1..Len(columns) |->
        [expectation_type |-> "expect_column_values_to_not_be_null",
         kwargs |-> [column |-> columns[i]]]]

\* ExpectationSuites.unique_checks
unique_checks(columns) ==
    [i \in 1..Len(columns) |->
        [expectation_type |-> "expect_column_values_to_be_unique",
         kwargs |-> [column |-> columns[i]]]]

\* Mutant of range_checks: the one-sided rules leave the bound not given out.
RECURSIVE range_checks_omits_bound(_)
range_checks_omits_bound(column_ranges) ==
    IF column_ranges = <<>> THEN <<>>
    ELSE LET column == Head(column_ranges)[1]
             range_def == Head(column_ranges)[2]
             rest == range_checks_omits_bound(Tail(column_ranges))
         IN  IF "min" \in range_def.keys /\ "max" \in range_def.keys
             THEN <<[expectation_type |-> "expect_column_values_to_be_between",
                     kwargs |-> [column |-> column, min_value |-> range_def.min,
                                 max_value |-> range_def.max]]>> \o rest
             ELSE IF "min" \in range_def.keys
             THEN <<[expectation_type |-> "expect_column_min_to_be_between",
                     kwargs |-> [column |-> column, min_value |-> range_def.min]]>> \o rest
             ELSE IF "max" \in range_def.keys
             THEN <<[expectation_type |-> "expect_column_max_to_be_between",
                     kwargs |-> [column |-> column, max_value |-> range_def.max]]>> \o rest
             ELSE rest

\* Mutant of range_checks: a min alone bounds the greatest value, a max alone the
\* least.
RECURSIVE range_checks_swaps_sides(_)
range_checks_swaps_sides(column_ranges) ==
    IF column_ranges = <<>> THEN <<>>
    ELSE LET column == Head(column_ranges)[1]
             range_def == Head(column_ranges)[2]
             rest == range_checks_swaps_sides(Tail(column_ranges))
         IN  IF "min" \in range_def.keys /\ "max" \in range_def.keys
             THEN <<[expectation_type |-> "expect_column_values_to_be_between",
                     kwargs |-> [column |-> column, min_value |-> range_def.min,
                                 max_value |-> range_def.max]]>> \o rest
             ELSE IF "min" \in range_def.keys
             THEN <<[expectation_type |-> "expect_column_max_to_be_between",
                     kwargs |-> [column |-> column, min_value |-> range_def.min,
                                 max_value |-> NoneInt]]>> \o rest
             ELSE IF "max" \in range_def.keys
             THEN <<[expectation_type |-> "expect_column_min_to_be_between",
                     kwargs |-> [column |-> column, min_value |-> NoneInt,
                                 max_value |-> range_def.max]]>> \o rest
             ELSE rest

\* ExpectationSuites.range_checks: the loop over column_ranges.items().
RECURSIVE range_checks(_)
range_checks(column_ranges) ==
    IF column_ranges = <<>> THEN <<>>
    ELSE LET column == Head(column_ranges)[1]
             range_def == Head(column_ranges)[2]
             rest == range_checks(Tail(column_ranges))
         IN  IF "min" \in range_def.keys /\ "max" \in range_def.keys
             THEN <<[expectation_type |-> "expect_column_values_to_be_between",
                     kwargs |-> [column |-> column, min_value |-> range_def.min,
                                 max_value |-> range_def.max]]>> \o rest
             ELSE IF "min" \in range_def.keys
             THEN <<[expectation_type |-> "expect_column_min_to_be_between",
                     kwargs |-> [column |-> column, min_value |-> range_def.min,
                                 max_value |-> NoneInt]]>> \o rest
             ELSE IF "max" \in range_def.keys
             THEN <<[expectation_type |-> "expect_column_max_to_be_between",
                     kwargs |-> [column |-> column, min_value |-> NoneInt,
                                 max_value |-> range_def.max]]>> \o rest
             ELSE rest

\* ExpectationSuites.row_count_check
row_count_check(min_rows, max_rows) == <<RowCountExp(min_rows, max_rows)>>

\* The program calls one of the builders.
call_null_checks ==
    /\ \E columns \in ColumnLists :
         probe' = [kind |-> "null_checks", columns |-> columns,
                   suite |-> null_checks(columns)]
    /\ UNCHANGED <<db, asset_counter, assets, suites, last_validation,
                   pc, hook, cfg, args, trace, result, reports, outcome>>

call_unique_checks ==
    /\ \E columns \in ColumnLists :
         probe' = [kind |-> "unique_checks", columns |-> columns,
                   suite |-> unique_checks(columns)]
    /\ UNCHANGED <<db, asset_counter, assets, suites, last_validation,
                   pc, hook, cfg, args, trace, result, reports, outcome>>

call_range_checks ==
    /\ \E column_ranges \in ColumnRanges :
         probe' = [kind |-> "range_checks", column_ranges |-> column_ranges,
                   suite |-> range_checks(column_ranges)]
    /\ UNCHANGED <<db, asset_counter, assets, suites, last_validation,
                   pc, hook, cfg, args, trace, result, reports, outcome>>

call_row_count_check ==
    /\ \E min_rows \in 0..MaxRow, max_rows \in {NoneInt} \cup 0..MaxRow :
         probe' = [kind |-> "row_count_check", min_rows |-> min_rows,
                   max_rows |-> max_rows, suite |-> row_count_check(min_rows, max_rows)]
    /\ UNCHANGED <<db, asset_counter, assets, suites, last_validation,
                   pc, hook, cfg, args, trace, result, reports, outcome>>

\* The suites a program combines.
SmallSuites ==
    {<<>>, null_checks(<<"age">>), null_checks(<<"age">>) \o unique_checks(<<"price">>)}

\* combine: `for suite in suite_results: combined.extend(suite)`.
RECURSIVE combine_loop(_, _)
combine_loop(combined, suite_results) ==
    IF suite_results = <<>> THEN combined
    ELSE combine_loop(combined \o Head(suite_results), Tail(suite_results))

\* Mutant of combine: the first operand is the list that is extended.
combine_extends_first(suite_results) ==
    [combined |-> combine_loop(<<>>, suite_results),
     suite_results |-> IF suite_results = <<>> THEN suite_results
                       ELSE [suite_results EXCEPT ![1] = combine_loop(<<>>, suite_results)]]

\* ExpectationSuites.combine(*suite_results): the list returned, and the operand
\* lists as they are after the call.
combine(suite_results) ==
    [combined |-> combine_loop(<<>>, suite_results), suite_results |-> suite_results]

\* The program combines three suites at once, and two by two from either side.
call_combine ==
    /\ \E a \in SmallSuites, b \in SmallSuites, c \in SmallSuites :
         LET ab == combine(<<a, b>>)
             bc == combine(<<b, c>>)
             all == combine(<<a, b, c>>)
         IN  probe' = [kind |-> "combine", operands |-> <<a, b, c>>,
                       after |-> all.suite_results, combined |-> all.combined,
                       left |-> combine(<<ab.combined, c>>).combined,
                       right |-> combine(<<a, bc.combined>>).combined]
    /\ UNCHANGED <<db, asset_counter, assets, suites, last_validation,
                   pc, hook, cfg, args, trace, result, reports, outcome>>

\* The program builds a one-sided range rule on column age and validates table
\* users with it; the ages are the rows' values.
validate_one_sided ==
    /\ asset_counter < MaxCalls
    /\ \E side \in {"min", "max"}, b \in 0..(MaxRow + 1) :
         LET suite == range_checks(<<<<"age", RangeDef({side}, b, b)>>>>)
             r == validate_table("users", None, suite,
                                 asset_counter, assets, suites, db, "none")
         IN  /\ asset_counter' = r.asset_counter
             /\ assets' = r.assets
             /\ suites' = r.suites
             /\ last_validation' = r.last_validation
             /\ probe' = [kind |-> "one_sided", side |-> side, bound |-> b,
                          suite |-> suite, report |-> r.report]
    /\ UNCHANGED <<db, pc, hook, cfg, args, trace, result, reports, outcome>>

\* The row-count descriptor in the form of the hooks' docstrings
\* (decorators.py lines 31-37, 177-186): the parameters beside expectation_type.
FlatExp(lo, hi) ==
    [expectation_type |-> "expect_table_row_count_to_be_between",
     min_value |-> lo, max_value |-> hi]

\* The program validates table users with one descriptor in the docstrings' form.
validate_flat_descriptor ==
    /\ asset_counter < MaxCalls
    /\ \E lo \in 0..MaxRow, hi \in 0..MaxRow :
         LET r == validate_table("users", None, <<FlatExp(lo, hi)>>,
                                 asset_counter, assets, suites, db, "none")
         IN  /\ asset_counter' = r.asset_counter
             /\ assets' = r.assets
             /\ suites' = r.suites
             /\ last_validation' = r.last_validation
             /\ probe' = [kind |-> "flat", min_value |-> lo, max_value |-> hi,
                          raised |-> r.raised, report |-> r.report]
    /\ UNCHANGED <<db, pc, hook, cfg, args, trace, result, reports, outcome>>

NextSuites ==
    \/ call_null_checks
    \/ call_unique_checks
    \/ call_range_checks
    \/ call_row_count_check
    \/ call_combine
    \/ validate_one_sided
    \/ validate_flat_descriptor

SpecSuites == Init /\ [][NextSuites]_vars

\* C22: range_checks returns exactly one rule per column of its mapping, in the
\* mapping's iteration order: as many rules as the mapping has columns.
C22_OneRangeRulePerColumn ==
    probe.kind = "range_checks"
    => /\ Len(probe.suite) = Len(probe.column_ranges)
       /\ \A i \in 1..Len(probe.suite) :
            probe.suite[i].kwargs.column = probe.column_ranges[i][1]

\* C23: a one-sided range rule built from only a min (only a max) passes on a
\* non-empty batch exactly when every value of the column is >= min (<= max), as
\* the two-sided rule whose other bound is unconstrained does; when it fails the
\* report has success = false and failed = 1.
C23_OneSidedRangeRule ==
    (probe.kind = "one_sided" /\ last_validation.rows # {})
    => LET rows == last_validation.rows
           two_sided == IF probe.side = "min"
                        THEN [column |-> "age", min_value |-> probe.bound,
                              max_value |-> NoneInt]
                        ELSE [column |-> "age", min_value |-> NoneInt,
                              max_value |-> probe.bound]
           within == \A v \in rows : IF probe.side = "min" THEN v >= probe.bound
                                     ELSE v <= probe.bound
       IN  /\ probe.report.success <=> within
           /\ probe.report.success
              <=> RunCheck("expect_column_values_to_be_between", two_sided, rows)
           /\ probe.report.statistics.evaluated_expectations = 1
           /\ ~within => probe.report.statistics.unsuccessful_expectations = 1

C23_Witness ==
    /\ probe.kind = "one_sided" /\ probe.side = "min"
    /\ last_validation.rows = Rows
    /\ probe.bound = MaxRow + 1
    /\ ~probe.report.success
    /\ probe.report.statistics.unsuccessful_expectations = 1

\* The place of the column in the mapping.
RangeDefOf(column_ranges, column) ==
    CHOOSE i \in 1..Len(column_ranges) : column_ranges[i][1] = column

\* C24: every descriptor produced by range_checks and by row_count_check carries
\* both min_value and max_value: a bound the caller did not give is there with the
\* no-bound value None; a column given both min and max yields a two-sided
\* values-between rule with exactly those bounds.
C24_BothBoundsAlwaysPresent ==
    /\ probe.kind = "row_count_check"
       => /\ Len(probe.suite) = 1
          /\ DOMAIN probe.suite[1].kwargs = {"min_value", "max_value"}
          /\ probe.suite[1].kwargs.min_value = probe.min_rows
          /\ probe.suite[1].kwargs.max_value = probe.max_rows
    /\ probe.kind = "range_checks"
       => \A i \in 1..Len(probe.suite) :
            LET kwargs == probe.suite[i].kwargs
                range_def == probe.column_ranges[RangeDefOf(probe.column_ranges,
                                                            kwargs.column)][2]
            IN  /\ {"min_value", "max_value"} \subseteq DOMAIN kwargs
                /\ kwargs.min_value = range_def.min
                /\ kwargs.max_value = range_def.max
                /\ range_def.keys = {"min", "max"}
                   => probe.suite[i].expectation_type
                      = "expect_column_values_to_be_between"

C24_Witness ==
    /\ probe.kind = "range_checks" /\ Len(probe.suite) = 2
    /\ probe.column_ranges[1][2].keys = {"min"}
    /\ probe.column_ranges[2][2].keys = {"min", "max"}
    /\ probe.suite[1].kwargs.max_value = NoneInt
    /\ probe.suite[2].kwargs.max_value = MaxRow

\* C25: combine is concatenation: the length is the sum of the operands' lengths,
\* elements keep their order and operands come in argument order, duplicates are
\* kept, the operand lists are left as they were, and combining two by two from
\* either side gives what combining all at once gives.
C25_CombineIsConcatenation ==
    probe.kind = "combine"
    => LET a == probe.operands[1]
           b == probe.operands[2]
           c == probe.operands[3]
       IN  /\ probe.combined = a \o b \o c
           /\ Len(probe.combined) = Len(a) + Len(b) + Len(c)
           /\ probe.after = probe.operands
           /\ probe.left = probe.combined
           /\ probe.right = probe.combined

C25_Witness ==
    /\ probe.kind = "combine"
    /\ Len(probe.operands[1]) = 1 /\ Len(probe.operands[3]) = 2
    /\ probe.operands[2] = probe.operands[1]
    /\ Len(probe.combined) = 4
    /\ probe.combined[1] = probe.combined[2]

\* C26: null_checks(columns) and unique_checks(columns) return exactly len(columns)
\* descriptors, the i-th of kind not-null (unique) on the i-th column; an empty
\* list gives an empty suite.
C26_OneCheckPerColumn ==
    probe.kind \in {"null_checks", "unique_checks"}
    => /\ Len(probe.suite) = Len(probe.columns)
       /\ probe.columns = <<>> => probe.suite = <<>>
       /\ \A i \in 1..Len(probe.columns) :
            /\ probe.suite[i].kwargs.column = probe.columns[i]
            /\ probe.suite[i].expectation_type
               = IF probe.kind = "null_checks"
                 THEN "expect_column_values_to_not_be_null"
                 ELSE "expect_column_values_to_be_unique"

C26_Witness ==
    /\ probe.kind = "unique_checks" /\ Len(probe.columns) = 2
    /\ probe.columns[1] = probe.columns[2]
    /\ Len(probe.suite) = 2

\* ---------------------------------------------------------------------------
\* SpecScope: a program uses the validator in a `with` scope and calls close().
\* probe holds the engine's pool and what the scope did.

\* More close() calls than this are not explored.
MaxCloses == 2

BodyErrors == {None, "ValueError"}

\* Engine.dispose(): the pool's connections are closed and the engine gets a new
\* empty pool; it raises nothing, whatever the pool held.
dispose(pool) == [raised |-> None, pool |-> 0]

\* DatabaseValidator.close
close(v) ==
    LET d == dispose(v.pool)
    IN  [v EXCEPT !.pool = d.pool, !.close_calls = @ + 1,
                  !.close_raised = IF d.raised # None THEN d.raised ELSE @]

\* DatabaseValidator.__enter__ returns self: the scope's body starts with the
\* validator as it was constructed.
context_enter ==
    [kind |-> "scope", pc |-> "body", pool |-> 0, close_calls |-> 0,
     close_raised |-> None, exit_calls |-> 0, exception |-> None, propagated |-> None]

\* Mutant of context_exit: the scope closes on the normal path only.
context_exit_on_success_only(v, exc) ==
    LET c == IF exc = None THEN close(v) ELSE v
    IN  [c EXCEPT !.pc = "exited", !.exit_calls = c.close_calls - v.close_calls,
                  !.exception = exc, !.propagated = exc]

\* DatabaseValidator.__exit__ with the body's exception (None: the body ended
\* normally): close() is called; the method returns None, so the interpreter
\* re-raises the body's exception after it; an exception of close() itself
\* would replace it.
context_exit(v, exc) ==
    LET c == close(v)
    IN  [c EXCEPT !.pc = "exited", !.exit_calls = c.close_calls - v.close_calls,
                  !.exception = exc,
                  !.propagated = IF c.close_raised # None THEN c.close_raised ELSE exc]

\* `with DatabaseValidator(connection_string) as v:`
scope_enter ==
    /\ probe = NoProbe
    /\ probe' = context_enter
    /\ UNCHANGED <<db, asset_counter, assets, suites, last_validation,
                   pc, hook, cfg, args, trace, result, reports, outcome>>

\* The body calls v.get_row_count(table): a connection of the pool is used and
\* goes back to the pool.
scope_get_row_count ==
    /\ probe.kind = "scope" /\ probe.pc = "body"
    /\ probe' = [probe EXCEPT !.pool = 1]
    /\ UNCHANGED <<db, asset_counter, assets, suites, last_validation,
                   pc, hook, cfg, args, trace, result, reports, outcome>>

\* The body calls v.validate_table(...); an exception of the call leaves the body
\* and so the scope.
scope_validate_table ==
    /\ probe.kind = "scope" /\ probe.pc = "body"
    /\ asset_counter < MaxCalls
    /\ \E t \in Tables, s \in SuiteNames, e \in HookExpectationLists, fault \in CallFaults :
         LET r == validate_table(t, s, e, asset_counter, assets, suites, db, fault)
         IN  /\ asset_counter' = r.asset_counter
             /\ assets' = r.assets
             /\ suites' = r.suites
             /\ last_validation' = r.last_validation
             /\ probe' = IF r.raised # None THEN context_exit(probe, r.raised) ELSE probe
    /\ UNCHANGED <<db, pc, hook, cfg, args, trace, result, reports, outcome>>

\* The body ends, normally or raising an exception of its own.
scope_leave ==
    /\ probe.kind = "scope" /\ probe.pc = "body"
    /\ \E exc \in BodyErrors : probe' = context_exit(probe, exc)
    /\ UNCHANGED <<db, asset_counter, assets, suites, last_validation,
                   pc, hook, cfg, args, trace, result, reports, outcome>>

\* The program calls v.close() itself, in the body or after the scope.
close_call ==
    /\ probe.kind = "scope"
    /\ probe.close_calls < MaxCloses
    /\ probe' = close(probe)
    /\ UNCHANGED <<db, asset_counter, assets, suites, last_validation,
                   pc, hook, cfg, args, trace, result, reports, outcome>>

NextScope ==
    \/ scope_enter
    \/ scope_get_row_count
    \/ scope_validate_table
    \/ scope_leave
    \/ close_call

SpecScope == Init /\ [][NextScope]_vars

\* C27: close() may be called any number of times without error, and leaving a
\* `with DatabaseValidator(...)` scope calls close() exactly once, on the normal
\* path and when the body raises; the body's exception then reaches the caller.
C27_CloseIdempotentScopeClosesOnce ==
    probe.kind = "scope"
    => /\ probe.close_raised = None
       /\ probe.close_calls > 0 /\ probe.pc = "exited" => probe.pool = 0
       /\ probe.pc = "body" => probe.exit_calls = 0
       /\ probe.pc = "exited" => /\ probe.exit_calls = 1
                                 /\ probe.propagated = probe.exception

C27_Witness ==
    /\ probe.kind = "scope" /\ probe.pc = "exited"
    /\ probe.exception = "OperationalError"
    /\ probe.propagated = "OperationalError"
    /\ probe.exit_calls = 1
    /\ probe.close_calls = MaxCloses + 1

\* C28: a descriptor with its parameters at the top level of the dict, as in the
\* hooks' docstrings, makes the validator invoke the check with those parameters:
\* the rule's verdict is that of the check with min_value and max_value as given,
\* as for the descriptor that nests them under kwargs.
C28_TopLevelParametersApplied ==
    probe.kind = "flat"
    => /\ probe.raised = None
       /\ Len(probe.report.results) = 1
       /\ probe.report.results[1].success
          = RunCheck("expect_table_row_count_to_be_between",
                     RowCountExp(probe.min_value, probe.max_value).kwargs,
                     last_validation.rows)

\* The suite name a call works with: the one given, or the generated one.
SuiteNameOf(call, counter) ==
    IF call.suite_name # None THEN call.suite_name
    ELSE AutoName(IF call.op = "validate_table" THEN call.target ELSE "query",
                  "suite", counter)

\* What a validate_table / validate_query call does to the suites of the context.
SuiteStep ==
    IF asset_counter' = asset_counter THEN suites' = suites
    ELSE LET suite_name == SuiteNameOf(probe'.last, asset_counter')
         IN  /\ suites \subseteq suites'
             /\ Cardinality(SuiteNamed(suites', suite_name)) = 1
             /\ suites' \ suites \subseteq SuiteNamed(suites', suite_name)
             /\ SuiteNamed(suites, suite_name) # {} => suites' = suites
             /\ \A s \in suites' : Cardinality(SuiteNamed(suites', s.name)) = 1

GeneratedNames(call, counter) ==
    LET prefix == IF call.op = "validate_table" THEN call.target ELSE "query"
    IN  (IF call.op = "validate_table" \/ call.asset_name = None
         THEN {AutoName(prefix, "asset", counter)} ELSE {})
        \cup (IF call.suite_name = None THEN {AutoName(prefix, "suite", counter)} ELSE {})

\* What a validate_table / validate_query call, raising or not, does to the counter,
\* and the names it generates against those of the validator's assets and suites
\* and of the call before it.
CounterStep ==
    LET generated == GeneratedNames(probe'.last, asset_counter')
    IN  /\ asset_counter' = asset_counter + 1
        /\ generated # {}
           => generated \cap ({a.name : a \in assets} \cup {s.name : s \in suites}) = {}
        /\ probe.kind = "calls"
           => generated \cap GeneratedNames(probe.last, asset_counter) = {}

\* C30: _asset_counter starts at 0, goes up by exactly 1 on every validate_table /
\* validate_query call, also on calls that raise, and never goes back, so the
\* generated asset and suite names of two calls on a validator are distinct.
C30_CounterNeverRepeats == asset_counter = 0 /\ [][CounterStep]_vars

C30_Witness ==
    /\ probe.kind = "calls" /\ asset_counter = MaxCalls
    /\ probe.last.raised = "OperationalError"
    /\ probe.last.suite_name = None
    /\ \E a \in assets : a.name = AutoName("users", "asset", 1)
    /\ GeneratedNames(probe.last, asset_counter) # {}
====
